---------------------------- MODULE Spec2Model ----------------------------
(***************************************************************************)
(* Model of the in-memory seat registry of src/src/models/seatModel.js:    *)
(* the seat map, the per-seat busy-wait mutex (seatMutex), the expiry      *)
(* sweep and the operations lockSeat / confirmBooking / unlockSeat /       *)
(* getAllSeats / getSeatById / getStatistics / resetSeats.                 *)
(*                                                                         *)
(* Scheduling follows the Node.js event loop.  An async operation runs     *)
(* acquireMutex synchronously when it is called; its critical section is   *)
(* the continuation of `await`, a microtask, which contains no further     *)
(* await and therefore runs to completion (finally/releaseMutex included)  *)
(* in one step; continuations run in the order they were queued.  Timer    *)
(* callbacks (the setTimeout retry of acquireMutex and the setInterval     *)
(* sweep) are macrotasks: they run only when no continuation is pending.   *)
(* Further operations and resetSeats may be called between the start of an *)
(* operation and its continuation.  Starting an operation reads neither    *)
(* the clock nor the seat map, so a clock advance or a read accessor that  *)
(* falls between a start and its continuation has the effect it has just   *)
(* before the start: the model places them there.                          *)
(***************************************************************************)
EXTENDS Integers, Sequences, FiniteSets, TLC

VARIABLES
    seats,       \* the seat map of the module
    seatMutex,   \* the keys of the seatMutex map
    now,         \* the clock, in ms since the start
    issued,      \* how many lock ids uuidv4 has returned
    microtasks,  \* operations holding their mutex entry, continuation pending (FIFO)
    timers,      \* operations waiting in acquireMutex, 1 ms timer armed (FIFO)
    response,    \* what the operation that ran last returned
    log,         \* the seats the step that ran last logged as 'Lock expired'
    outcomes,    \* history: per seat, who called lockSeat and how the calls ended
    settled      \* history: the <<seat, user, lock id>> confirmed or unlocked

vars == <<seats, seatMutex, now, issued, microtasks, timers, response, log,
          outcomes, settled>>

---------------------------------------------------------------------------
(* Bounds of the model *)

\* operations in flight at once, in the specification of concurrent callers
MaxCalls == 2
\* how many 1 ms steps the clock takes beside its LOCK_DURATION steps
MaxSkew == 1
\* number of lock ids uuidv4 hands out in a run
MaxLocks == 2
\* operations in flight at once, where calls wait for one another
MaxWaitCalls == 3

(* Inputs *)
Users == {"alice", "bob"}
\* seat ids the callers use; "Z9" is not a seat of the theater
TargetIds == {"A1", "A2", "Z9"}
\* the seats and the users of the concurrent callers
RaceIds == {"A1", "A2"}
RaceUsers == {"alice", "bob", "carol"}

---------------------------------------------------------------------------
(* Constants of seatModel.js *)

AVAILABLE == "available"
LOCKED == "locked"
BOOKED == "booked"

LOCK_DURATION == 60 * 1000

Rows == <<"A", "B", "C", "D", "E">>
SeatsPerRow == 8

\* null, for the string-valued fields, the lock id and the Date fields
Null == "null"
NullId == 0
NullTime == -1

\* the k-th seat in insertion order: `${row}${i}`
SeatOrder == [k \in 1..(Len(Rows) * SeatsPerRow) |->
                 Rows[((k - 1) \div SeatsPerRow) + 1]
                    \o ToString(((k - 1) % SeatsPerRow) + 1)]

SeatIds == {SeatOrder[k] : k \in DOMAIN SeatOrder}

NewSeat(k) ==
    [id            |-> SeatOrder[k],
     row           |-> Rows[((k - 1) \div SeatsPerRow) + 1],
     number        |-> ((k - 1) % SeatsPerRow) + 1,
     status        |-> AVAILABLE,
     userId        |-> Null,
     lockId        |-> NullId,
     lockedAt      |-> NullTime,
     lockExpiresAt |-> NullTime,
     bookedAt      |-> NullTime]

initializeSeats ==
    [id \in SeatIds |-> NewSeat(CHOOSE k \in DOMAIN SeatOrder : SeatOrder[k] = id)]

---------------------------------------------------------------------------
(* The clock.  It advances by a millisecond or by a whole lock duration,   *)
(* so that a lock taken at T is seen at T + LOCK_DURATION and just after.  *)

ClockSteps == {1, LOCK_DURATION}

\* the clock values of a run
InHorizon(t) == (t \div LOCK_DURATION) <= 1 /\ (t % LOCK_DURATION) <= MaxSkew

\* what a later `new Date()` of the same synchronous run can read
LaterReads(t) == {u \in {t, t + 1} : u = t \/ InHorizon(u)}

---------------------------------------------------------------------------
(* The mutex helpers *)

\* acquireMutex's checkMutex: whether the entry can be taken
MutexFree(mutex, seatId) == seatId \notin mutex

acquireMutex(mutex, seatId) == mutex \cup {seatId}

\* a release that leaves the entry in the map
releaseMutexKeeps(mutex, seatId) == mutex

releaseMutex(mutex, seatId) == mutex \ {seatId}

---------------------------------------------------------------------------
(* The expiry sweep *)

\* a lock taken to expire in the millisecond of lockExpiresAt itself
IsExpiredInclusive(seat, t) ==
    /\ seat.status = LOCKED
    /\ seat.lockExpiresAt # NullTime
    /\ t >= seat.lockExpiresAt

IsExpired(seat, t) ==
    /\ seat.status = LOCKED
    /\ seat.lockExpiresAt # NullTime
    /\ t > seat.lockExpiresAt

\* a clearing of the lock that leaves lockedAt
ClearLockKeepsLockedAt(seat) ==
    [seat EXCEPT !.status = AVAILABLE,
                 !.userId = Null,
                 !.lockId = NullId,
                 !.lockExpiresAt = NullTime]

ClearLock(seat) ==
    [seat EXCEPT !.status = AVAILABLE,
                 !.userId = Null,
                 !.lockId = NullId,
                 !.lockedAt = NullTime,
                 !.lockExpiresAt = NullTime]

\* the seats for which the sweep prints `Lock expired for seat ${seatId}`
ExpiredSeats(ss, t) == {id \in DOMAIN ss : IsExpired(ss[id], t)}

\* a sweep that clears nothing
cleanupExpiredLocksIdle(ss, t) == ss

\* a sweep that clears every lock, elapsed or not
cleanupExpiredLocksAll(ss, t) ==
    [id \in DOMAIN ss |-> IF ss[id].status = LOCKED THEN ClearLock(ss[id]) ELSE ss[id]]

cleanupExpiredLocks(ss, t) ==
    [id \in DOMAIN ss |-> IF IsExpired(ss[id], t) THEN ClearLock(ss[id]) ELSE ss[id]]

---------------------------------------------------------------------------
(* Results.  `error` names the failure; the messages of the source are     *)
(* 'Seat not found', 'Seat X is <status>', 'Seat X is not locked...',      *)
(* '... is locked by another user', 'Invalid lock ID ...',                 *)
(* 'Lock ... has expired', 'Cannot unlock seat ...'.                       *)

NotFound == "not found"
Conflict == "conflict"
NotLocked == "not locked"
WrongUser == "locked by another user"
InvalidLock == "invalid lock id"
Expired == "expired"
CannotUnlock == "cannot unlock"

Failure(err) == [success |-> FALSE, error |-> err]

---------------------------------------------------------------------------
(* The critical sections of the three asynchronous operations: the body of *)
(* `try`, given the seat map and the values read from the clock.  Each     *)
(* yields the new seat map, the returned object and the last value read    *)
(* from the clock.                                                         *)

\* lockSeat without its availability check
lockSeatUnchecked(ss, seatId, userId, newId, t1, t2) ==
    LET swept == cleanupExpiredLocks(ss, t1) IN
    IF seatId \notin DOMAIN swept
    THEN [seats |-> swept, clock |-> t1, result |-> Failure(NotFound)]
    ELSE LET locked == [swept[seatId] EXCEPT
                           !.status = LOCKED,
                           !.userId = userId,
                           !.lockId = newId,
                           !.lockedAt = t2,
                           !.lockExpiresAt = t2 + LOCK_DURATION]
         IN [seats  |-> [swept EXCEPT ![seatId] = locked], clock |-> t2,
             result |-> [success |-> TRUE,
                         lockId |-> newId,
                         lockExpiresAt |-> t2 + LOCK_DURATION,
                         seat |-> locked]]

\* lockSeat that lets the holder lock again, extending the lock
lockSeatReentrant(ss, seatId, userId, newId, t1, t2) ==
    LET swept == cleanupExpiredLocks(ss, t1) IN
    IF seatId \notin DOMAIN swept
    THEN [seats |-> swept, clock |-> t1, result |-> Failure(NotFound)]
    ELSE IF swept[seatId].status # AVAILABLE
            /\ ~(swept[seatId].status = LOCKED /\ swept[seatId].userId = userId)
    THEN [seats  |-> swept, clock |-> t1,
          result |-> [success |-> FALSE, error |-> Conflict,
                      currentStatus |-> swept[seatId].status]]
    ELSE LET locked == [swept[seatId] EXCEPT
                           !.status = LOCKED,
                           !.userId = userId,
                           !.lockId = newId,
                           !.lockedAt = t2,
                           !.lockExpiresAt = t2 + LOCK_DURATION]
         IN [seats  |-> [swept EXCEPT ![seatId] = locked], clock |-> t2,
             result |-> [success |-> TRUE,
                         lockId |-> newId,
                         lockExpiresAt |-> t2 + LOCK_DURATION,
                         seat |-> locked]]

\* lockSeat that reports every refused seat as locked
lockSeatConflictLocked(ss, seatId, userId, newId, t1, t2) ==
    LET swept == cleanupExpiredLocks(ss, t1) IN
    IF seatId \notin DOMAIN swept
    THEN [seats |-> swept, clock |-> t1, result |-> Failure(NotFound)]
    ELSE IF swept[seatId].status # AVAILABLE
    THEN [seats  |-> swept, clock |-> t1,
          result |-> [success |-> FALSE, error |-> Conflict,
                      currentStatus |-> LOCKED]]
    ELSE LET locked == [swept[seatId] EXCEPT
                           !.status = LOCKED,
                           !.userId = userId,
                           !.lockId = newId,
                           !.lockedAt = t2,
                           !.lockExpiresAt = t2 + LOCK_DURATION]
         IN [seats  |-> [swept EXCEPT ![seatId] = locked], clock |-> t2,
             result |-> [success |-> TRUE,
                         lockId |-> newId,
                         lockExpiresAt |-> t2 + LOCK_DURATION,
                         seat |-> locked]]

\* lockSeat that refuses locked seats only
lockSeatOverBooked(ss, seatId, userId, newId, t1, t2) ==
    LET swept == cleanupExpiredLocks(ss, t1) IN
    IF seatId \notin DOMAIN swept
    THEN [seats |-> swept, clock |-> t1, result |-> Failure(NotFound)]
    ELSE IF swept[seatId].status = LOCKED
    THEN [seats  |-> swept, clock |-> t1,
          result |-> [success |-> FALSE, error |-> Conflict,
                      currentStatus |-> swept[seatId].status]]
    ELSE LET locked == [swept[seatId] EXCEPT
                           !.status = LOCKED,
                           !.userId = userId,
                           !.lockId = newId,
                           !.lockedAt = t2,
                           !.lockExpiresAt = t2 + LOCK_DURATION]
         IN [seats  |-> [swept EXCEPT ![seatId] = locked], clock |-> t2,
             result |-> [success |-> TRUE,
                         lockId |-> newId,
                         lockExpiresAt |-> t2 + LOCK_DURATION,
                         seat |-> locked]]

\* lockSeat that gives every lock the same id
lockSeatFixedId(ss, seatId, userId, newId, t1, t2) ==
    LET swept == cleanupExpiredLocks(ss, t1) IN
    IF seatId \notin DOMAIN swept
    THEN [seats |-> swept, clock |-> t1, result |-> Failure(NotFound)]
    ELSE IF swept[seatId].status # AVAILABLE
    THEN [seats  |-> swept, clock |-> t1,
          result |-> [success |-> FALSE, error |-> Conflict,
                      currentStatus |-> swept[seatId].status]]
    ELSE LET locked == [swept[seatId] EXCEPT
                           !.status = LOCKED,
                           !.userId = userId,
                           !.lockId = 1,
                           !.lockedAt = t2,
                           !.lockExpiresAt = t2 + LOCK_DURATION]
         IN [seats  |-> [swept EXCEPT ![seatId] = locked], clock |-> t2,
             result |-> [success |-> TRUE,
                         lockId |-> 1,
                         lockExpiresAt |-> t2 + LOCK_DURATION,
                         seat |-> locked]]

\* lockSeat that makes the seat it does not find
lockSeatCreates(ss, seatId, userId, newId, t1, t2) ==
    LET swept == cleanupExpiredLocks(ss, t1)
        locked == [id |-> seatId, row |-> Null, number |-> 0,
                   status |-> LOCKED, userId |-> userId, lockId |-> newId,
                   lockedAt |-> t2, lockExpiresAt |-> t2 + LOCK_DURATION,
                   bookedAt |-> NullTime]
    IN IF seatId \notin DOMAIN swept
       THEN [seats  |-> [id \in DOMAIN swept \cup {seatId} |->
                            IF id = seatId THEN locked ELSE swept[id]],
             clock  |-> t2,
             result |-> [success |-> TRUE,
                         lockId |-> newId,
                         lockExpiresAt |-> t2 + LOCK_DURATION,
                         seat |-> locked]]
       ELSE [seats |-> swept, clock |-> t1,
             result |-> [success |-> FALSE, error |-> Conflict,
                         currentStatus |-> swept[seatId].status]]

\* lockSeat that counts the lock duration from the sweep's clock
lockSeatExpiresFromSweep(ss, seatId, userId, newId, t1, t2) ==
    LET swept == cleanupExpiredLocks(ss, t1) IN
    IF seatId \notin DOMAIN swept
    THEN [seats |-> swept, clock |-> t1, result |-> Failure(NotFound)]
    ELSE IF swept[seatId].status # AVAILABLE
    THEN [seats  |-> swept, clock |-> t1,
          result |-> [success |-> FALSE, error |-> Conflict,
                      currentStatus |-> swept[seatId].status]]
    ELSE LET locked == [swept[seatId] EXCEPT
                           !.status = LOCKED,
                           !.userId = userId,
                           !.lockId = newId,
                           !.lockedAt = t2,
                           !.lockExpiresAt = t1 + LOCK_DURATION]
         IN [seats  |-> [swept EXCEPT ![seatId] = locked], clock |-> t2,
             result |-> [success |-> TRUE,
                         lockId |-> newId,
                         lockExpiresAt |-> t1 + LOCK_DURATION,
                         seat |-> locked]]

\* lockSeat: t1 is the sweep's `new Date()`, t2 is lockedAt
lockSeat(ss, seatId, userId, newId, t1, t2) ==
    LET swept == cleanupExpiredLocks(ss, t1) IN
    IF seatId \notin DOMAIN swept
    THEN [seats |-> swept, clock |-> t1, result |-> Failure(NotFound)]
    ELSE IF swept[seatId].status # AVAILABLE
    THEN [seats  |-> swept, clock |-> t1,
          result |-> [success |-> FALSE, error |-> Conflict,
                      currentStatus |-> swept[seatId].status]]
    ELSE LET locked == [swept[seatId] EXCEPT
                           !.status = LOCKED,
                           !.userId = userId,
                           !.lockId = newId,
                           !.lockedAt = t2,
                           !.lockExpiresAt = t2 + LOCK_DURATION]
         IN [seats  |-> [swept EXCEPT ![seatId] = locked], clock |-> t2,
             result |-> [success |-> TRUE,
                         lockId |-> newId,
                         lockExpiresAt |-> t2 + LOCK_DURATION,
                         seat |-> locked]]

\* confirmBooking without the check of lockExpiresAt that precedes the booking
confirmBookingNoExpiry(ss, seatId, userId, lockId, t1, t2) ==
    LET swept == cleanupExpiredLocks(ss, t1) IN
    IF seatId \notin DOMAIN swept
    THEN [seats |-> swept, clock |-> t1, result |-> Failure(NotFound)]
    ELSE IF swept[seatId].status # LOCKED
    THEN [seats |-> swept, clock |-> t1, result |-> Failure(NotLocked)]
    ELSE IF swept[seatId].userId # userId
    THEN [seats |-> swept, clock |-> t1, result |-> Failure(WrongUser)]
    ELSE IF swept[seatId].lockId # lockId
    THEN [seats |-> swept, clock |-> t1, result |-> Failure(InvalidLock)]
    ELSE LET booked == [swept[seatId] EXCEPT
                           !.status = BOOKED,
                           !.bookedAt = t2,
                           !.lockId = NullId,
                           !.lockedAt = NullTime,
                           !.lockExpiresAt = NullTime]
         IN [seats  |-> [swept EXCEPT ![seatId] = booked], clock |-> t2,
             result |-> [success |-> TRUE, seat |-> booked]]

\* confirmBooking that compares the lock id before the user
confirmBookingLockIdFirst(ss, seatId, userId, lockId, t1, t2) ==
    LET swept == cleanupExpiredLocks(ss, t1) IN
    IF seatId \notin DOMAIN swept
    THEN [seats |-> swept, clock |-> t1, result |-> Failure(NotFound)]
    ELSE IF swept[seatId].status # LOCKED
    THEN [seats |-> swept, clock |-> t1, result |-> Failure(NotLocked)]
    ELSE IF swept[seatId].lockId # lockId
    THEN [seats |-> swept, clock |-> t1, result |-> Failure(InvalidLock)]
    ELSE IF swept[seatId].userId # userId
    THEN [seats |-> swept, clock |-> t1, result |-> Failure(WrongUser)]
    ELSE IF t2 > swept[seatId].lockExpiresAt
    THEN [seats  |-> [swept EXCEPT ![seatId] = ClearLock(swept[seatId])],
          clock  |-> t2,
          result |-> Failure(Expired)]
    ELSE LET booked == [swept[seatId] EXCEPT
                           !.status = BOOKED,
                           !.bookedAt = t2,
                           !.lockId = NullId,
                           !.lockedAt = NullTime,
                           !.lockExpiresAt = NullTime]
         IN [seats  |-> [swept EXCEPT ![seatId] = booked], clock |-> t2,
             result |-> [success |-> TRUE, seat |-> booked]]

\* confirmBooking that clears the user with the lock
confirmBookingDropsUser(ss, seatId, userId, lockId, t1, t2) ==
    LET swept == cleanupExpiredLocks(ss, t1) IN
    IF seatId \notin DOMAIN swept
    THEN [seats |-> swept, clock |-> t1, result |-> Failure(NotFound)]
    ELSE IF swept[seatId].status # LOCKED
    THEN [seats |-> swept, clock |-> t1, result |-> Failure(NotLocked)]
    ELSE IF swept[seatId].userId # userId
    THEN [seats |-> swept, clock |-> t1, result |-> Failure(WrongUser)]
    ELSE IF swept[seatId].lockId # lockId
    THEN [seats |-> swept, clock |-> t1, result |-> Failure(InvalidLock)]
    ELSE IF t2 > swept[seatId].lockExpiresAt
    THEN [seats  |-> [swept EXCEPT ![seatId] = ClearLock(swept[seatId])],
          clock  |-> t2,
          result |-> Failure(Expired)]
    ELSE LET booked == [swept[seatId] EXCEPT
                           !.status = BOOKED,
                           !.bookedAt = t2,
                           !.userId = Null,
                           !.lockId = NullId,
                           !.lockedAt = NullTime,
                           !.lockExpiresAt = NullTime]
         IN [seats  |-> [swept EXCEPT ![seatId] = booked], clock |-> t2,
             result |-> [success |-> TRUE, seat |-> booked]]

\* confirmBooking that does not compare the lock id
confirmBookingAnyLockId(ss, seatId, userId, lockId, t1, t2) ==
    LET swept == cleanupExpiredLocks(ss, t1) IN
    IF seatId \notin DOMAIN swept
    THEN [seats |-> swept, clock |-> t1, result |-> Failure(NotFound)]
    ELSE IF swept[seatId].status # LOCKED
    THEN [seats |-> swept, clock |-> t1, result |-> Failure(NotLocked)]
    ELSE IF swept[seatId].userId # userId
    THEN [seats |-> swept, clock |-> t1, result |-> Failure(WrongUser)]
    ELSE IF t2 > swept[seatId].lockExpiresAt
    THEN [seats  |-> [swept EXCEPT ![seatId] = ClearLock(swept[seatId])],
          clock  |-> t2,
          result |-> Failure(Expired)]
    ELSE LET booked == [swept[seatId] EXCEPT
                           !.status = BOOKED,
                           !.bookedAt = t2,
                           !.lockId = NullId,
                           !.lockedAt = NullTime,
                           !.lockExpiresAt = NullTime]
         IN [seats  |-> [swept EXCEPT ![seatId] = booked], clock |-> t2,
             result |-> [success |-> TRUE, seat |-> booked]]

\* confirmBooking: t1 is the sweep's clock, t2 the clock of the expiry check and
\* of bookedAt, which is read right after it (taken in the same millisecond)
\* a confirmBooking that does not sweep before it looks at the seat
confirmBookingUnswept(ss, seatId, userId, lockId, t1, t2) ==
    IF seatId \notin DOMAIN ss
    THEN [seats |-> ss, clock |-> t1, result |-> Failure(NotFound)]
    ELSE IF ss[seatId].status # LOCKED
    THEN [seats |-> ss, clock |-> t1, result |-> Failure(NotLocked)]
    ELSE IF ss[seatId].userId # userId
    THEN [seats |-> ss, clock |-> t1, result |-> Failure(WrongUser)]
    ELSE IF ss[seatId].lockId # lockId
    THEN [seats |-> ss, clock |-> t1, result |-> Failure(InvalidLock)]
    ELSE IF t2 > ss[seatId].lockExpiresAt
    THEN [seats  |-> [ss EXCEPT ![seatId] = ClearLock(ss[seatId])],
          clock  |-> t2,
          result |-> Failure(Expired)]
    ELSE LET booked == [ss[seatId] EXCEPT
                           !.status = BOOKED,
                           !.bookedAt = t2,
                           !.lockId = NullId,
                           !.lockedAt = NullTime,
                           !.lockExpiresAt = NullTime]
         IN [seats  |-> [ss EXCEPT ![seatId] = booked], clock |-> t2,
             result |-> [success |-> TRUE, seat |-> booked]]

confirmBooking(ss, seatId, userId, lockId, t1, t2) ==
    LET swept == cleanupExpiredLocks(ss, t1) IN
    IF seatId \notin DOMAIN swept
    THEN [seats |-> swept, clock |-> t1, result |-> Failure(NotFound)]
    ELSE IF swept[seatId].status # LOCKED
    THEN [seats |-> swept, clock |-> t1, result |-> Failure(NotLocked)]
    ELSE IF swept[seatId].userId # userId
    THEN [seats |-> swept, clock |-> t1, result |-> Failure(WrongUser)]
    ELSE IF swept[seatId].lockId # lockId
    THEN [seats |-> swept, clock |-> t1, result |-> Failure(InvalidLock)]
    ELSE IF t2 > swept[seatId].lockExpiresAt
    THEN [seats  |-> [swept EXCEPT ![seatId] = ClearLock(swept[seatId])],
          clock  |-> t2,
          result |-> Failure(Expired)]
    ELSE LET booked == [swept[seatId] EXCEPT
                           !.status = BOOKED,
                           !.bookedAt = t2,
                           !.lockId = NullId,
                           !.lockedAt = NullTime,
                           !.lockExpiresAt = NullTime]
         IN [seats  |-> [swept EXCEPT ![seatId] = booked], clock |-> t2,
             result |-> [success |-> TRUE, seat |-> booked]]

\* unlockSeat that compares the user only
unlockSeatAnyLock(ss, seatId, userId, lockId) ==
    IF seatId \notin DOMAIN ss
    THEN [seats |-> ss, result |-> Failure(NotFound)]
    ELSE IF ss[seatId].status # LOCKED
    THEN [seats |-> ss, result |-> Failure(NotLocked)]
    ELSE IF ss[seatId].userId # userId
    THEN [seats |-> ss, result |-> Failure(CannotUnlock)]
    ELSE LET freed == ClearLock(ss[seatId])
         IN [seats  |-> [ss EXCEPT ![seatId] = freed],
             result |-> [success |-> TRUE, seat |-> freed]]

\* unlockSeat that leaves the user on the seat it frees
unlockSeatKeepsUser(ss, seatId, userId, lockId) ==
    IF seatId \notin DOMAIN ss
    THEN [seats |-> ss, result |-> Failure(NotFound)]
    ELSE IF ss[seatId].status # LOCKED
    THEN [seats |-> ss, result |-> Failure(NotLocked)]
    ELSE IF ss[seatId].userId # userId \/ ss[seatId].lockId # lockId
    THEN [seats |-> ss, result |-> Failure(CannotUnlock)]
    ELSE LET freed == [ss[seatId] EXCEPT !.status = AVAILABLE,
                                         !.lockId = NullId,
                                         !.lockedAt = NullTime,
                                         !.lockExpiresAt = NullTime]
         IN [seats  |-> [ss EXCEPT ![seatId] = freed],
             result |-> [success |-> TRUE, seat |-> freed]]

\* unlockSeat that tells a wrong lock id from a wrong user
unlockSeatTwoErrors(ss, seatId, userId, lockId) ==
    IF seatId \notin DOMAIN ss
    THEN [seats |-> ss, result |-> Failure(NotFound)]
    ELSE IF ss[seatId].status # LOCKED
    THEN [seats |-> ss, result |-> Failure(NotLocked)]
    ELSE IF ss[seatId].userId # userId
    THEN [seats |-> ss, result |-> Failure(CannotUnlock)]
    ELSE IF ss[seatId].lockId # lockId
    THEN [seats |-> ss, result |-> Failure(InvalidLock)]
    ELSE LET freed == ClearLock(ss[seatId])
         IN [seats  |-> [ss EXCEPT ![seatId] = freed],
             result |-> [success |-> TRUE, seat |-> freed]]

\* unlockSeat: no sweep, no clock
unlockSeat(ss, seatId, userId, lockId) ==
    IF seatId \notin DOMAIN ss
    THEN [seats |-> ss, result |-> Failure(NotFound)]
    ELSE IF ss[seatId].status # LOCKED
    THEN [seats |-> ss, result |-> Failure(NotLocked)]
    ELSE IF ss[seatId].userId # userId \/ ss[seatId].lockId # lockId
    THEN [seats |-> ss, result |-> Failure(CannotUnlock)]
    ELSE LET freed == ClearLock(ss[seatId])
         IN [seats  |-> [ss EXCEPT ![seatId] = freed],
             result |-> [success |-> TRUE, seat |-> freed]]

---------------------------------------------------------------------------
(* The synchronous accessors *)

\* Object.values(seats), in insertion order, after the sweep
getAllSeats(ss, t) ==
    LET swept == cleanupExpiredLocks(ss, t)
    IN [seats  |-> swept,
        result |-> [k \in DOMAIN SeatOrder |-> swept[SeatOrder[k]]]]

NullSeat == [id |-> Null]

\* getSeatById without the sweep
getSeatByIdUnswept(ss, seatId, t) ==
    [seats  |-> ss,
     result |-> IF seatId \in DOMAIN ss THEN ss[seatId] ELSE NullSeat]

getSeatById(ss, seatId, t) ==
    LET swept == cleanupExpiredLocks(ss, t)
    IN [seats  |-> swept,
        result |-> IF seatId \in DOMAIN swept THEN swept[seatId] ELSE NullSeat]

CountStatus(ss, st) == Cardinality({id \in DOMAIN ss : ss[id].status = st})

\* getStatistics without the sweep
getStatisticsUnswept(ss, t) ==
    [seats  |-> ss,
     result |-> [total     |-> Cardinality(DOMAIN ss),
                 available |-> CountStatus(ss, AVAILABLE),
                 locked    |-> CountStatus(ss, LOCKED),
                 booked    |-> CountStatus(ss, BOOKED)]]

getStatistics(ss, t) ==
    LET swept == cleanupExpiredLocks(ss, t)
    IN [seats  |-> swept,
        result |-> [total     |-> Cardinality(DOMAIN swept),
                    available |-> CountStatus(swept, AVAILABLE),
                    locked    |-> CountStatus(swept, LOCKED),
                    booked    |-> CountStatus(swept, BOOKED)]]

---------------------------------------------------------------------------
(* The controller's status codes *)

\* The message of each error, word by word; X stands for the seat id, one of
\* A1..E8 whenever it is part of a message, and S for the seat's status.
MessageWords(err) ==
    CASE err = NotFound     -> <<"Seat", "not", "found">>
      [] err = Conflict     -> <<"Seat", "X", "is", "S">>
      [] err = NotLocked    -> <<"Seat", "X", "is", "not", "locked.",
                                 "Current", "status:", "S">>
      [] err = WrongUser    -> <<"Seat", "X", "is", "locked", "by", "another", "user">>
      [] err = InvalidLock  -> <<"Invalid", "lock", "ID", "for", "seat", "X">>
      [] err = Expired      -> <<"Lock", "for", "seat", "X", "has", "expired">>
      [] err = CannotUnlock -> <<"Cannot", "unlock", "seat", "X.",
                                 "Invalid", "user", "or", "lock", "ID">>

\* the two strings the controller searches for
SearchWords(word) ==
    CASE word = NotFound -> <<"not", "found">>
      [] word = Expired  -> <<"expired">>

\* error.includes(word)
Includes(err, word) ==
    LET m == MessageWords(err)
        w == SearchWords(word)
    IN \E i \in 1..Len(m) :
          /\ i + Len(w) - 1 <= Len(m)
          /\ SubSeq(m, i, i + Len(w) - 1) = w

\* SeatController.lockSeat: the status code of the response
lockSeatStatus(result) ==
    IF result.success THEN 200
    ELSE IF Includes(result.error, NotFound) THEN 404
    ELSE 409

\* the status code of unlockSeat with every refusal answered as a conflict
unlockSeatStatusConflict(result) ==
    IF result.success THEN 200
    ELSE IF Includes(result.error, NotFound) THEN 404
    ELSE 409

\* SeatController.unlockSeat: the status code of the response
unlockSeatStatus(result) ==
    IF result.success THEN 200
    ELSE IF Includes(result.error, NotFound) THEN 404
    ELSE 403

\* the status code of confirmBooking with 'expired' answered as a conflict
confirmBookingStatusNoGone(result) ==
    IF result.success THEN 201
    ELSE IF Includes(result.error, NotFound) THEN 404
    ELSE 409

\* SeatController.confirmBooking: the status code of the response
confirmBookingStatus(result) ==
    IF result.success THEN 201
    ELSE IF Includes(result.error, NotFound) THEN 404
    ELSE IF Includes(result.error, Expired) THEN 410
    ELSE 409

---------------------------------------------------------------------------
(* State *)

NoResponse == [op |-> "none"]

\* a lock id no uuidv4 call of the run returns
ForgedId == MaxLocks + 1

InFlight == Len(microtasks) + Len(timers)

PendingLocks ==
    Cardinality({k \in DOMAIN microtasks : microtasks[k].op = "lock"})
       + Cardinality({k \in DOMAIN timers : timers[k].op = "lock"})

Init ==
    /\ seats = initializeSeats
    /\ seatMutex = {}
    /\ now = 0
    /\ issued = 0
    /\ microtasks = <<>>
    /\ timers = <<>>
    /\ response = NoResponse
    /\ log = {}
    /\ outcomes = [s \in RaceIds |-> [callers |-> {}, ok |-> 0, conflict |-> 0]]
    /\ settled = {}

---------------------------------------------------------------------------
(* Actions *)

\* An asynchronous operation is called: acquireMutex's first checkMutex runs
\* synchronously and either takes the entry (the continuation is queued) or
\* arms the 1 ms timer.
Call(op, seatId, userId, lockId) ==
    LET call == [op |-> op, seatId |-> seatId, userId |-> userId, lockId |-> lockId]
    IN /\ IF MutexFree(seatMutex, seatId)
          THEN /\ seatMutex' = acquireMutex(seatMutex, seatId)
               /\ microtasks' = Append(microtasks, call)
               /\ timers' = timers
          ELSE /\ seatMutex' = seatMutex
               /\ microtasks' = microtasks
               /\ timers' = Append(timers, call)
       /\ response' = NoResponse
       /\ log' = {}
       /\ UNCHANGED <<seats, now, issued>>

CallLockSeat(seatId, userId) ==
    /\ issued + PendingLocks < MaxLocks
    /\ Call("lock", seatId, userId, NullId)

CallConfirmBooking(seatId, userId, lockId) ==
    Call("confirm", seatId, userId, lockId)

CallUnlockSeat(seatId, userId, lockId) ==
    Call("unlock", seatId, userId, lockId)

\* The 1 ms timer of the longest-waiting acquireMutex fires: checkMutex again.
RetryMutex ==
    /\ microtasks = <<>>
    /\ timers # <<>>
    /\ LET call == Head(timers)
       IN IF MutexFree(seatMutex, call.seatId)
          THEN /\ seatMutex' = acquireMutex(seatMutex, call.seatId)
               /\ microtasks' = <<call>>
               /\ timers' = Tail(timers)
          ELSE /\ seatMutex' = seatMutex
               /\ microtasks' = microtasks
               /\ timers' = Append(Tail(timers), call)
    /\ response' = NoResponse
    /\ log' = {}
    /\ UNCHANGED <<seats, now, issued>>

Responded(call, result) ==
    [op |-> call.op, seatId |-> call.seatId, userId |-> call.userId,
     lockId |-> call.lockId, result |-> result]

\* The continuations: try { ... } finally { releaseMutex(seatId) }
ResumeLockSeat ==
    /\ microtasks # <<>>
    /\ Head(microtasks).op = "lock"
    /\ LET call == Head(microtasks)
       IN /\ \E t2 \in LaterReads(now) :
               LET r == lockSeat(seats, call.seatId, call.userId, issued + 1, now, t2)
               IN /\ seats' = r.seats
                  /\ now' = r.clock
                  /\ issued' = IF r.result.success THEN issued + 1 ELSE issued
                  /\ response' = Responded(call, r.result)
          /\ seatMutex' = releaseMutex(seatMutex, call.seatId)
    /\ log' = ExpiredSeats(seats, now)
    /\ microtasks' = Tail(microtasks)
    /\ UNCHANGED timers

ResumeConfirmBooking ==
    /\ microtasks # <<>>
    /\ Head(microtasks).op = "confirm"
    /\ LET call == Head(microtasks)
       IN /\ \E t2 \in LaterReads(now) :
               LET r == confirmBooking(seats, call.seatId, call.userId,
                                       call.lockId, now, t2)
               IN /\ seats' = r.seats
                  /\ now' = r.clock
                  /\ response' = Responded(call, r.result)
          /\ seatMutex' = releaseMutex(seatMutex, call.seatId)
    /\ log' = ExpiredSeats(seats, now)
    /\ microtasks' = Tail(microtasks)
    /\ UNCHANGED <<issued, timers>>

ResumeUnlockSeat ==
    /\ microtasks # <<>>
    /\ Head(microtasks).op = "unlock"
    /\ LET call == Head(microtasks)
           r == unlockSeat(seats, call.seatId, call.userId, call.lockId)
       IN /\ seats' = r.seats
          /\ response' = Responded(call, r.result)
          /\ seatMutex' = releaseMutex(seatMutex, call.seatId)
    /\ log' = {}
    /\ microtasks' = Tail(microtasks)
    /\ UNCHANGED <<now, issued, timers>>

\* The synchronous accessors
GetAllSeats ==
    /\ microtasks = <<>>
    /\ LET r == getAllSeats(seats, now)
       IN /\ seats' = r.seats
          /\ response' = [op |-> "getAll", result |-> r.result]
    /\ log' = ExpiredSeats(seats, now)
    /\ UNCHANGED <<seatMutex, now, issued, microtasks, timers>>

GetSeatById(seatId) ==
    /\ microtasks = <<>>
    /\ LET r == getSeatById(seats, seatId, now)
       IN /\ seats' = r.seats
          /\ response' = [op |-> "getById", seatId |-> seatId, result |-> r.result]
    /\ log' = ExpiredSeats(seats, now)
    /\ UNCHANGED <<seatMutex, now, issued, microtasks, timers>>

GetStatistics ==
    /\ microtasks = <<>>
    /\ LET r == getStatistics(seats, now)
       IN /\ seats' = r.seats
          /\ response' = [op |-> "statistics", result |-> r.result]
    /\ log' = ExpiredSeats(seats, now)
    /\ UNCHANGED <<seatMutex, now, issued, microtasks, timers>>

\* resetSeats that keeps the booked seats
resetSeatsKeepBooked ==
    [seats  |-> [id \in DOMAIN seats |->
                    IF seats[id].status = BOOKED THEN seats[id] ELSE initializeSeats[id]],
     mutex  |-> {},
     result |-> [success |-> TRUE]]

\* resetSeats: a new seat map, an empty mutex map
resetSeats == [seats |-> initializeSeats, mutex |-> {}, result |-> [success |-> TRUE]]

ResetSeats ==
    /\ seats' = resetSeats.seats
    /\ seatMutex' = resetSeats.mutex
    /\ response' = [op |-> "reset", result |-> resetSeats.result]
    /\ log' = {}
    /\ UNCHANGED <<now, issued, microtasks, timers>>

\* setInterval(cleanupExpiredLocks, 10000)
IntervalCleanup ==
    /\ microtasks = <<>>
    /\ seats' = cleanupExpiredLocks(seats, now)
    /\ response' = NoResponse
    /\ log' = ExpiredSeats(seats, now)
    /\ UNCHANGED <<seatMutex, now, issued, microtasks, timers>>

\* Time passes.
Tick(d) ==
    /\ microtasks = <<>>
    /\ InHorizon(now + d)
    /\ now' = now + d
    /\ response' = NoResponse
    /\ log' = {}
    /\ UNCHANGED <<seats, seatMutex, issued, microtasks, timers>>

LockIdInputs == (1..issued) \cup {ForgedId}

---------------------------------------------------------------------------
(* The history variables are written by the specifications that use them.  *)

NoHistory == UNCHANGED <<outcomes, settled>>

\* the call being resumed
Resuming == Head(microtasks)

---------------------------------------------------------------------------
(* Callers that issue one operation at a time: an operation is called when *)
(* none is in flight.                                                      *)

Next ==
    \/ \E s \in TargetIds, u \in Users :
          InFlight = 0 /\ CallLockSeat(s, u) /\ NoHistory
    \/ \E s \in TargetIds, u \in Users, l \in LockIdInputs :
          InFlight = 0 /\ CallConfirmBooking(s, u, l) /\ NoHistory
    \/ \E s \in TargetIds, u \in Users, l \in LockIdInputs :
          InFlight = 0 /\ CallUnlockSeat(s, u, l) /\ NoHistory
    \/ ResumeLockSeat /\ NoHistory
    \/ ResumeConfirmBooking /\ NoHistory
    \/ ResumeUnlockSeat /\ NoHistory
    \/ GetAllSeats /\ NoHistory
    \/ \E s \in TargetIds : GetSeatById(s) /\ NoHistory
    \/ GetStatistics /\ NoHistory
    \/ ResetSeats /\ NoHistory
    \/ IntervalCleanup /\ NoHistory
    \/ \E d \in ClockSteps : Tick(d) /\ NoHistory

Spec == Init /\ [][Next]_vars

---------------------------------------------------------------------------
(* The same callers, with the history of the confirmed and unlocked        *)
(* <<seat, user, lock id>> since the last reset.                           *)

Settle ==
    /\ settled' = IF response'.result.success
                  THEN settled \cup {<<Resuming.seatId, Resuming.userId, Resuming.lockId>>}
                  ELSE settled
    /\ UNCHANGED outcomes

NextSettled ==
    \/ \E s \in TargetIds, u \in Users :
          InFlight = 0 /\ CallLockSeat(s, u) /\ NoHistory
    \/ \E s \in TargetIds, u \in Users, l \in LockIdInputs :
          InFlight = 0 /\ CallConfirmBooking(s, u, l) /\ NoHistory
    \/ \E s \in TargetIds, u \in Users, l \in LockIdInputs :
          InFlight = 0 /\ CallUnlockSeat(s, u, l) /\ NoHistory
    \/ ResumeLockSeat /\ NoHistory
    \/ ResumeConfirmBooking /\ Settle
    \/ ResumeUnlockSeat /\ Settle
    \/ GetAllSeats /\ NoHistory
    \/ \E s \in TargetIds : GetSeatById(s) /\ NoHistory
    \/ GetStatistics /\ NoHistory
    \/ ResetSeats /\ settled' = {} /\ UNCHANGED outcomes
    \/ IntervalCleanup /\ NoHistory
    \/ \E d \in ClockSteps : Tick(d) /\ NoHistory

SpecSettled == Init /\ [][NextSettled]_vars

---------------------------------------------------------------------------
(* Concurrent callers: up to MaxCalls operations in flight, started in any *)
(* order with resetSeats and with the continuations and timers of the      *)
(* operations already started.                                             *)

NextRace ==
    \/ \E s \in RaceIds, u \in Users :
          InFlight < MaxCalls /\ CallLockSeat(s, u) /\ NoHistory
    \/ \E s \in RaceIds, u \in Users, l \in 1..issued :
          InFlight < MaxCalls /\ CallConfirmBooking(s, u, l) /\ NoHistory
    \/ \E s \in RaceIds, u \in Users, l \in 1..issued :
          InFlight < MaxCalls /\ CallUnlockSeat(s, u, l) /\ NoHistory
    \/ RetryMutex /\ NoHistory
    \/ ResumeLockSeat /\ NoHistory
    \/ ResumeConfirmBooking /\ NoHistory
    \/ ResumeUnlockSeat /\ NoHistory
    \/ ResetSeats /\ NoHistory

SpecRace == Init /\ [][NextRace]_vars

---------------------------------------------------------------------------
(* Contention: every user calls lockSeat at most once per seat, all calls  *)
(* may be in flight together, and nothing else runs: no unlock, no reset,  *)
(* no clock step that could expire a lock.  `outcomes` keeps, per seat,    *)
(* the callers and the number of calls that succeeded and that were        *)
(* refused with a conflict.                                                *)

Counted ==
    LET s == Resuming.seatId
        r == response'.result
    IN /\ outcomes' =
            [outcomes EXCEPT
               ![s].ok = IF r.success THEN @ + 1 ELSE @,
               ![s].conflict = IF ~r.success /\ r.error = Conflict THEN @ + 1 ELSE @]
       /\ UNCHANGED settled

NextContend ==
    \/ \E s \in RaceIds, u \in RaceUsers :
          /\ u \notin outcomes[s].callers
          /\ CallLockSeat(s, u)
          /\ outcomes' = [outcomes EXCEPT ![s].callers = @ \cup {u}]
          /\ UNCHANGED settled
    \/ RetryMutex /\ NoHistory
    \/ ResumeLockSeat /\ Counted

SpecContend == Init /\ [][NextContend]_vars

---------------------------------------------------------------------------
(* Properties *)

\* this step is the continuation of an operation `op`
Resumed(op) ==
    /\ microtasks # <<>>
    /\ Head(microtasks).op = op
    /\ microtasks' = Tail(microtasks)

\* the lock calls on seat s that have not returned
LocksInFlight(s) ==
    Cardinality({k \in DOMAIN microtasks :
                    microtasks[k].op = "lock" /\ microtasks[k].seatId = s})
      + Cardinality({k \in DOMAIN timers :
                    timers[k].op = "lock" /\ timers[k].seatId = s})

\* a lock or a booking is in force on the seat at time t
Held(seat, t) ==
    \/ seat.status = BOOKED
    \/ seat.status = LOCKED /\ t <= seat.lockExpiresAt

(* C1: of the lockSeat calls that distinct users make on an available seat, *)
(* with no unlock, reset or expiry in between, at most one has succeeded at *)
(* any time, and once all N >= 1 have returned exactly one has succeeded    *)
(* and the other N - 1 were refused with a conflict.                        *)
C1_ExactlyOneWinner ==
    \A s \in RaceIds :
       LET n == Cardinality(outcomes[s].callers)
       IN /\ outcomes[s].ok <= 1
          /\ (n >= 1 /\ LocksInFlight(s) = 0) =>
                (outcomes[s].ok = 1 /\ outcomes[s].conflict = n - 1)

C1_Witness ==
    /\ Cardinality(outcomes["A1"].callers) = 3
    /\ InFlight = 0
    /\ outcomes["A1"].conflict = 2

(* C2: a lockSeat on a seat whose lock has not expired, or that is booked,  *)
(* is refused with a conflict whoever calls it, the holder included, and    *)
(* leaves the seat as it was (holder, lock id and lockExpiresAt unchanged). *)
C2_NoSecondLock ==
    [][ (/\ Resumed("lock")
         /\ Resuming.seatId \in SeatIds
         /\ Held(seats[Resuming.seatId], now))
        => (/\ ~response'.result.success
            /\ response'.result.error = Conflict
            /\ seats'[Resuming.seatId] = seats[Resuming.seatId]) ]_vars

C2_Witness ==
    /\ response.op = "lock"
    /\ ~response.result.success
    /\ response.seatId \in SeatIds
    /\ seats[response.seatId].status = LOCKED
    /\ seats[response.seatId].userId = response.userId

Leased(seat, t) == seat.status = LOCKED /\ t <= seat.lockExpiresAt

LeasedSeats(ss, t) == {y \in DOMAIN ss : Leased(ss[y], t)}

(* C5 (as the code has it): a seat locked at T is expired from T +          *)
(* LOCK_DURATION + 1 on, not from T + LOCK_DURATION: getSeatById and        *)
(* getAllSeats report it available exactly when now > lockExpiresAt,        *)
(* getStatistics counts it as locked exactly when now <= lockExpiresAt,     *)
(* lockSeat on it succeeds exactly when now > lockExpiresAt, confirmBooking *)
(* after lockExpiresAt finds it not locked and leaves it available; and     *)
(* unlockSeat does not look at the clock: it succeeds exactly when userId   *)
(* and lockId are those of the stored lock.                                 *)
C5_ExpiresAfterLockDuration ==
    [][ /\ \A s \in SeatIds :
              seats[s].status = LOCKED =>
                 LET over == now > seats[s].lockExpiresAt
                 IN /\ (response'.op = "getById" /\ response'.seatId = s) =>
                          ((response'.result.status = AVAILABLE) <=> over)
                    /\ response'.op = "getAll" =>
                          \A k \in DOMAIN response'.result :
                             response'.result[k].id = s =>
                                ((response'.result[k].status = AVAILABLE) <=> over)
                    /\ (Resumed("lock") /\ Resuming.seatId = s) =>
                          /\ response'.result.success <=> over
                          /\ over => seats'[s].userId = Resuming.userId
                    /\ (Resumed("confirm") /\ Resuming.seatId = s /\ over) =>
                          /\ response'.result = Failure(NotLocked)
                          /\ seats'[s].status = AVAILABLE
                    /\ (Resumed("unlock") /\ Resuming.seatId = s) =>
                          (response'.result.success <=>
                              (/\ seats[s].userId = Resuming.userId
                               /\ seats[s].lockId = Resuming.lockId))
        /\ response'.op = "statistics" =>
              response'.result.locked = Cardinality(LeasedSeats(seats, now)) ]_vars

\* a lockSeat that succeeded on a seat whose expired lock it swept itself
C5_Witness ==
    /\ response.op = "lock"
    /\ response.result.success
    /\ response.seatId \in log

(* C5 (as stated): whenever a seat locked at T is the object of             *)
(* getSeatById, getAllSeats, getStatistics, lockSeat, confirmBooking or     *)
(* unlockSeat at a time >= T + LOCK_DURATION, it is reported available: the *)
(* reads show it available, lockSeat by another user succeeds, and          *)
(* confirmBooking and unlockSeat find it not locked.                        *)
C5_ExpiresAtLockDuration ==
    [][ \A s \in SeatIds :
          (seats[s].status = LOCKED /\ now >= seats[s].lockExpiresAt) =>
             /\ (response'.op = "getById" /\ response'.seatId = s) =>
                   response'.result.status = AVAILABLE
             /\ response'.op = "getAll" =>
                   \A k \in DOMAIN response'.result :
                      response'.result[k].id = s =>
                         response'.result[k].status = AVAILABLE
             /\ response'.op = "statistics" =>
                   response'.result.locked
                      <= Cardinality({y \in SeatIds \ {s} : seats[y].status = LOCKED})
             /\ (/\ Resumed("lock")
                 /\ Resuming.seatId = s
                 /\ Resuming.userId # seats[s].userId) =>
                   response'.result.success
             /\ (Resumed("confirm") /\ Resuming.seatId = s) =>
                   response'.result = Failure(NotLocked)
             /\ (Resumed("unlock") /\ Resuming.seatId = s) =>
                   response'.result = Failure(NotLocked) ]_vars

(* C6: no seat returned by getAllSeats or getSeatById is locked with        *)
(* now > lockExpiresAt, and the `locked` count of getStatistics is the      *)
(* number of seats locked with now <= lockExpiresAt.                        *)
C6_ReadsAfterSweep ==
    /\ response.op = "getById" =>
          (response.result # NullSeat =>
              ~(/\ response.result.status = LOCKED
                /\ now > response.result.lockExpiresAt))
    /\ response.op = "getAll" =>
          /\ Len(response.result) = Cardinality(SeatIds)
          /\ \A k \in DOMAIN response.result :
                ~(/\ response.result[k].status = LOCKED
                  /\ now > response.result[k].lockExpiresAt)
    /\ response.op = "statistics" =>
          /\ response.result.locked = Cardinality(LeasedSeats(seats, now))
          /\ response.result.total
                = response.result.available + response.result.locked
                    + response.result.booked

\* a read of a seat whose lock the read's own sweep cleared
C6_Witness ==
    /\ response.op = "getById"
    /\ response.seatId \in log
    /\ response.result.status = AVAILABLE

(* C7 (as stated): a lockSeat call on seat X, whatever it returns, leaves   *)
(* every other seat Y as it was.                                            *)
C7_AcquireFrame ==
    [][ Resumed("lock") =>
          \A y \in SeatIds \ {Resuming.seatId} : seats'[y] = seats[y] ]_vars

(* C8 (as stated): a call waits only on the mutex entry of its own seat, a  *)
(* lockSeat on an available seat succeeds whatever is in flight on other    *)
(* seats, and an operation on seat X does not make a lockSeat,              *)
(* confirmBooking or unlockSeat on another seat Y fail that would have      *)
(* succeeded without it.                                                    *)
C8_NoInterference ==
    [][ /\ \A k \in DOMAIN timers' :
              k > Len(timers) => timers'[k].seatId \in seatMutex
        /\ (/\ Resumed("lock")
            /\ Resuming.seatId \in SeatIds
            /\ seats[Resuming.seatId].status = AVAILABLE) =>
              response'.result.success
        /\ (Resumed("lock") \/ Resumed("confirm") \/ Resumed("unlock")) =>
              \A y \in SeatIds \ {Resuming.seatId}, u \in Users, l \in 1..issued :
                 /\ unlockSeat(seats, y, u, l).result.success
                       => unlockSeat(seats', y, u, l).result.success
                 /\ confirmBooking(seats, y, u, l, now', now').result.success
                       => confirmBooking(seats', y, u, l, now', now').result.success
                 /\ lockSeat(seats, y, u, issued' + 1, now', now').result.success
                       => lockSeat(seats', y, u, issued' + 1, now', now').result.success ]_vars

\* the arguments of the call being resumed
ResumingArgs == <<Resuming.seatId, Resuming.userId, Resuming.lockId>>

\* the seat as a read at time t shows it
EffectiveSeat(seat, t) ==
    IF seat.status = LOCKED /\ t > seat.lockExpiresAt
    THEN [seat EXCEPT !.status = AVAILABLE,
                      !.userId = Null,
                      !.lockId = NullId,
                      !.lockedAt = NullTime,
                      !.lockExpiresAt = NullTime]
    ELSE seat

(* C9 (as the code has it): once confirmBooking or unlockSeat has succeeded *)
(* with <<seatId, userId, lockId>>, every later confirmBooking or           *)
(* unlockSeat with the same three arguments fails, until resetSeats,        *)
(* whatever other users do in between.  A repeated unlockSeat leaves the    *)
(* seat as it was; a repeated confirmBooking leaves it as it was except     *)
(* that it clears the expired lock another call has put on the seat in      *)
(* between, so that the seat is as a read would have shown it.              *)
C9_SettledCallsStayFailed ==
    [][ ((Resumed("confirm") \/ Resumed("unlock")) /\ ResumingArgs \in settled) =>
          /\ ~response'.result.success
          /\ response'.result.error
                \in {NotLocked, WrongUser, InvalidLock, CannotUnlock}
          /\ Resuming.op = "unlock" =>
                seats'[Resuming.seatId] = seats[Resuming.seatId]
          /\ Resuming.op = "confirm" =>
                seats'[Resuming.seatId] = EffectiveSeat(seats[Resuming.seatId], now) ]_vars

\* a repeated call refused while another lock is on the seat
C9_Witness ==
    /\ response.op \in {"confirm", "unlock"}
    /\ ~response.result.success
    /\ <<response.seatId, response.userId, response.lockId>> \in settled
    /\ seats[response.seatId].status = LOCKED

(* C9 (as stated): once confirmBooking or unlockSeat has succeeded with     *)
(* <<seatId, userId, lockId>>, every later confirmBooking or unlockSeat     *)
(* with the same three arguments fails and leaves every field of the seat   *)
(* as it was, until resetSeats.                                             *)
C9_SettledCallsLeaveSeat ==
    [][ ((Resumed("confirm") \/ Resumed("unlock")) /\ ResumingArgs \in settled) =>
          /\ ~response'.result.success
          /\ seats'[Resuming.seatId] = seats[Resuming.seatId] ]_vars

(* C10: after resetSeats, from any state, each of the 40 seats is available *)
(* with userId, lockId, lockedAt, lockExpiresAt and bookedAt null, and      *)
(* getStatistics reports total = available = 40, locked = 0, booked = 0.    *)
C10_ResetRestoresAll ==
    response.op = "reset" =>
       /\ Cardinality(DOMAIN seats) = 40
       /\ \A id \in DOMAIN seats :
             /\ seats[id].id = id
             /\ seats[id].status = AVAILABLE
             /\ seats[id].userId = Null
             /\ seats[id].lockId = NullId
             /\ seats[id].lockedAt = NullTime
             /\ seats[id].lockExpiresAt = NullTime
             /\ seats[id].bookedAt = NullTime
       /\ getStatistics(seats, now).result
             = [total |-> 40, available |-> 40, locked |-> 0, booked |-> 0]

\* a reset after both locks of the run were issued, one call still in flight
C10_Witness ==
    /\ response.op = "reset"
    /\ issued = MaxLocks
    /\ microtasks # <<>>


(* C11: a lockSeat on a seat that, once expired locks are cleared, is not   *)
(* available is refused with a conflict whose currentStatus is the seat's   *)
(* status, 'locked' for a seat locked with now <= lockExpiresAt and         *)
(* 'booked' for a booked seat, and the seat is left as it was.              *)
C11_ConflictCarriesStatus ==
    [][ (Resumed("lock") /\ Resuming.seatId \in SeatIds) =>
          LET seat == seats[Resuming.seatId]
          IN /\ Leased(seat, now) =>
                   /\ response'.result = [success |-> FALSE, error |-> Conflict,
                                          currentStatus |-> LOCKED]
                   /\ seats'[Resuming.seatId] = seat
             /\ seat.status = BOOKED =>
                   /\ response'.result = [success |-> FALSE, error |-> Conflict,
                                          currentStatus |-> BOOKED]
                   /\ seats'[Resuming.seatId] = seat ]_vars

\* a lockSeat refused on a booked seat
C11_Witness ==
    /\ response.op = "lock"
    /\ ~response.result.success
    /\ response.result.error = Conflict
    /\ response.result.currentStatus = BOOKED
    /\ seats[response.seatId].status = BOOKED


(* C12: unlockSeat on a seat stored as locked, with the userId and lockId   *)
(* of the stored lock, succeeds whatever the clock reads, also when         *)
(* now > lockExpiresAt, and leaves the seat available with userId, lockId,  *)
(* lockedAt and lockExpiresAt null.                                         *)
C12_ReleaseWhateverTheClock ==
    [][ (/\ Resumed("unlock")
         /\ Resuming.seatId \in SeatIds
         /\ seats[Resuming.seatId].status = LOCKED
         /\ seats[Resuming.seatId].userId = Resuming.userId
         /\ seats[Resuming.seatId].lockId = Resuming.lockId) =>
          /\ response'.result.success
          /\ seats'[Resuming.seatId] =
                [seats[Resuming.seatId] EXCEPT !.status = AVAILABLE,
                                               !.userId = Null,
                                               !.lockId = NullId,
                                               !.lockedAt = NullTime,
                                               !.lockExpiresAt = NullTime]
          /\ response'.result.seat = seats'[Resuming.seatId] ]_vars

\* An unlockSeat that succeeded on an expired lock: lock ids are issued in
\* order and the clock never goes back, so lock 1 was taken no later than
\* lock 2, at 0, and expired at LOCK_DURATION.
C12_Witness ==
    /\ response.op = "unlock"
    /\ response.result.success
    /\ response.lockId = 1
    /\ now > LOCK_DURATION
    /\ \E y \in SeatIds : seats[y].lockId = 2 /\ seats[y].lockedAt = 0

(* C13: unlockSeat fails with "not locked" on a seat stored as available or *)
(* booked, and with the one "cannot unlock" error on a seat stored as       *)
(* locked when the userId or the lockId differs from the stored lock; in    *)
(* every failure no seat changes.                                           *)
C13_ReleaseFailures ==
    [][ (Resumed("unlock") /\ Resuming.seatId \in SeatIds) =>
          LET seat == seats[Resuming.seatId]
          IN /\ seat.status \in {AVAILABLE, BOOKED} =>
                   response'.result = Failure(NotLocked)
             /\ (/\ seat.status = LOCKED
                 /\ (seat.userId # Resuming.userId \/ seat.lockId # Resuming.lockId)) =>
                   response'.result = Failure(CannotUnlock)
             /\ ~response'.result.success => seats' = seats ]_vars

\* the holder's unlockSeat refused for the lock id alone
C13_Witness ==
    /\ response.op = "unlock"
    /\ response.result = Failure(CannotUnlock)
    /\ seats[response.seatId].status = LOCKED
    /\ seats[response.seatId].userId = response.userId
    /\ seats[response.seatId].lockId # response.lockId


\* this step is the continuation of `op` on seat y and it returns success
Succeeded(op, y) ==
    /\ Resumed(op)
    /\ Resuming.seatId = y
    /\ response'.result.success

(* C14: a seat changes status only from available to locked in a successful *)
(* lockSeat on it, from locked to booked in a successful confirmBooking on  *)
(* it, from locked to available in a successful unlockSeat on it or when    *)
(* the clock has passed lockExpiresAt, and to available in resetSeats; a    *)
(* lock is replaced by another only in a lockSeat on the seat after         *)
(* lockExpiresAt; and a booked seat keeps every field, userId and bookedAt  *)
(* included, in every step other than resetSeats.                           *)
C14_Transitions ==
    [][ \A y \in SeatIds :
          LET a == seats[y].status
              b == seats'[y].status
          IN /\ b \in {AVAILABLE, LOCKED, BOOKED}
             /\ (a = AVAILABLE /\ b = LOCKED) => Succeeded("lock", y)
             /\ ~(a = AVAILABLE /\ b = BOOKED)
             /\ (a = LOCKED /\ b = BOOKED) => Succeeded("confirm", y)
             /\ (a = LOCKED /\ b = AVAILABLE) =>
                   \/ Succeeded("unlock", y)
                   \/ now' > seats[y].lockExpiresAt
                   \/ response'.op = "reset"
             /\ (a = LOCKED /\ b = LOCKED /\ seats'[y] # seats[y]) =>
                   (Succeeded("lock", y) /\ now > seats[y].lockExpiresAt)
             /\ (a = BOOKED /\ seats'[y] # seats[y]) =>
                   (response'.op = "reset" /\ b = AVAILABLE) ]_vars

\* a sweep has cleared an expired lock while another seat stayed booked
C14_Witness ==
    /\ log # {}
    /\ \E y \in SeatIds : seats[y].status = BOOKED


(* C15: the lock id a successful lockSeat stores and returns is none of the *)
(* ids issued before it, so the locks in force carry distinct ids; and a    *)
(* confirmBooking or unlockSeat that presents an id other than the one      *)
(* stored on the seat, an id of an earlier lock included, fails, also when  *)
(* the caller is the user who holds the present lock.                       *)
C15_FreshLockIds ==
    /\ [](\A s \in SeatIds :
            seats[s].status = LOCKED =>
               /\ seats[s].lockId \in 1..issued
               /\ \A y \in SeatIds \ {s} :
                     seats[y].status = LOCKED => seats[y].lockId # seats[s].lockId)
    /\ [][ /\ (Resumed("lock") /\ response'.result.success) =>
                /\ response'.result.lockId \notin 1..issued
                /\ response'.result.lockId \in 1..issued'
                /\ seats'[Resuming.seatId].lockId = response'.result.lockId
           /\ (/\ Resumed("confirm") \/ Resumed("unlock")
               /\ Resuming.seatId \in SeatIds
               /\ Resuming.lockId # seats[Resuming.seatId].lockId) =>
                /\ ~response'.result.success
                /\ seats'[Resuming.seatId] =
                      IF Resuming.op = "confirm"
                      THEN EffectiveSeat(seats[Resuming.seatId], now)
                      ELSE seats[Resuming.seatId] ]_vars

\* the holder of the present lock refused with the id of an earlier lock
C15_Witness ==
    /\ response.op \in {"confirm", "unlock"}
    /\ ~response.result.success
    /\ response.lockId \in 1..issued
    /\ response.seatId \in DOMAIN seats
    /\ seats[response.seatId].status = LOCKED
    /\ seats[response.seatId].userId = response.userId
    /\ seats[response.seatId].lockId # response.lockId


\* the call being resumed is a confirmBooking by the holder of the lock
\* stored on the seat, with its lock id
HolderConfirms ==
    /\ Resumed("confirm")
    /\ Resuming.seatId \in SeatIds
    /\ seats[Resuming.seatId].status = LOCKED
    /\ seats[Resuming.seatId].userId = Resuming.userId
    /\ seats[Resuming.seatId].lockId = Resuming.lockId

(* C16 (as the code has it): a confirmBooking by the holder with the right  *)
(* lock id fails whenever the clock has passed lockExpiresAt and leaves the *)
(* seat available with userId, lockId, lockedAt and lockExpiresAt null.     *)
(* When lockExpiresAt has passed by the time of the call's sweep, the sweep *)
(* clears the lock and the call fails with "not locked", status 409; it     *)
(* fails with "expired", status 410, only when lockExpiresAt passes between *)
(* the sweep and the expiry check.                                          *)
C16_ExpiredCommit ==
    [][ HolderConfirms =>
          LET seat == seats[Resuming.seatId]
              cleared == [seat EXCEPT !.status = AVAILABLE,
                                      !.userId = Null,
                                      !.lockId = NullId,
                                      !.lockedAt = NullTime,
                                      !.lockExpiresAt = NullTime]
          IN /\ now > seat.lockExpiresAt =>
                   /\ response'.result = Failure(NotLocked)
                   /\ confirmBookingStatus(response'.result) = 409
                   /\ seats'[Resuming.seatId] = cleared
             /\ (now <= seat.lockExpiresAt /\ now' > seat.lockExpiresAt) =>
                   /\ response'.result = Failure(Expired)
                   /\ confirmBookingStatus(response'.result) = 410
                   /\ seats'[Resuming.seatId] = cleared
             /\ now' <= seat.lockExpiresAt =>
                   /\ response'.result.success
                   /\ confirmBookingStatus(response'.result) = 201 ]_vars

\* the lock expired between the sweep and the expiry check
C16_Witness ==
    /\ response.op = "confirm"
    /\ response.result = Failure(Expired)
    /\ seats[response.seatId].status = AVAILABLE
    /\ seats[response.seatId].userId = Null

(* C16 (as stated): a confirmBooking by the holder with the right lock id   *)
(* after lockExpiresAt fails with "expired", status 410, and leaves the     *)
(* seat available.                                                          *)
C16_ExpiredCommitIsGone ==
    [][ (HolderConfirms /\ now > seats[Resuming.seatId].lockExpiresAt) =>
          /\ response'.result = Failure(Expired)
          /\ confirmBookingStatus(response'.result) = 410
          /\ seats'[Resuming.seatId].status = AVAILABLE ]_vars


C18_AvailableIffNoLock ==
    \A s \in SeatIds :
       (seats[s].status = AVAILABLE)
          <=> (/\ seats[s].userId = Null
               /\ seats[s].lockId = NullId
               /\ seats[s].lockedAt = NullTime
               /\ seats[s].lockExpiresAt = NullTime)

\* a seat made available by the sweep, beside a booked one
C18_Witness ==
    /\ \E s \in log : seats[s].status = AVAILABLE
    /\ \E y \in SeatIds : seats[y].status = BOOKED /\ seats[y].lockId = NullId

(* C19: in every state a locked seat has userId, lockId, lockedAt and       *)
(* lockExpiresAt set, and lockExpiresAt = lockedAt + LOCK_DURATION, which   *)
(* is 60000 ms.                                                             *)
C19_LockedFields ==
    /\ LOCK_DURATION = 60000
    /\ \A s \in SeatIds :
          seats[s].status = LOCKED =>
             /\ seats[s].userId # Null
             /\ seats[s].lockId # NullId
             /\ seats[s].lockedAt # NullTime
             /\ seats[s].lockExpiresAt # NullTime
             /\ seats[s].lockExpiresAt = seats[s].lockedAt + LOCK_DURATION

\* a lock whose lockedAt was read a millisecond after the sweep's clock
C19_Witness ==
    /\ response.op = "lock"
    /\ response.result.success
    /\ seats[response.seatId].status = LOCKED
    /\ seats[response.seatId].lockedAt = now
    /\ now % LOCK_DURATION = 1

(* C20: in every state a booked seat has bookedAt set, lockId, lockedAt and *)
(* lockExpiresAt null and userId set; and that userId is the user whose     *)
(* lockSeat took the lock that was confirmed: lockSeat stores its caller as *)
(* userId, the userId of a lock does not change while the lock is stored,   *)
(* confirmBooking keeps it, and it does not change while the seat is        *)
(* booked.                                                                  *)
C20_BookedFields ==
    /\ [](\A s \in SeatIds :
            seats[s].status = BOOKED =>
               /\ seats[s].bookedAt # NullTime
               /\ seats[s].userId # Null
               /\ seats[s].lockId = NullId
               /\ seats[s].lockedAt = NullTime
               /\ seats[s].lockExpiresAt = NullTime)
    /\ [][ \A y \in SeatIds :
             /\ Succeeded("lock", y) =>
                   /\ seats'[y].userId = Resuming.userId
                   /\ seats'[y].lockId = response'.result.lockId
             /\ (/\ seats[y].status = LOCKED
                 /\ seats'[y].status = LOCKED
                 /\ seats'[y].lockId = seats[y].lockId) =>
                   seats'[y].userId = seats[y].userId
             /\ (seats[y].status = LOCKED /\ seats'[y].status = BOOKED) =>
                   /\ seats[y].lockId = Resuming.lockId
                   /\ seats'[y].userId = seats[y].userId
                   /\ seats'[y].bookedAt = now'
             /\ (seats[y].status = BOOKED /\ seats'[y].status = BOOKED) =>
                   /\ seats'[y].userId = seats[y].userId
                   /\ seats'[y].bookedAt = seats[y].bookedAt ]_vars

\* a booked seat that kept its user when another user tried to confirm it
C20_Witness ==
    /\ response.op = "confirm"
    /\ ~response.result.success
    /\ response.seatId \in SeatIds
    /\ seats[response.seatId].status = BOOKED
    /\ seats[response.seatId].userId # response.userId


\* the seats a read at time t shows with status st
SeatsShown(ss, t, st) == {s \in DOMAIN ss : EffectiveSeat(ss[s], t).status = st}

(* C21: in every state getStatistics returns total = 40 and, as available,  *)
(* locked and booked, the numbers of seats that have each status once the   *)
(* expired locks are cleared, so that the three add up to total; on the     *)
(* initial seats it returns available = 40, locked = 0 and booked = 0.      *)
C21_StatisticsCount ==
    LET stats == getStatistics(seats, now).result
    IN /\ stats.total = 40
       /\ stats.available = Cardinality(SeatsShown(seats, now, AVAILABLE))
       /\ stats.locked = Cardinality(SeatsShown(seats, now, LOCKED))
       /\ stats.booked = Cardinality(SeatsShown(seats, now, BOOKED))
       /\ stats.available + stats.locked + stats.booked = stats.total
       /\ response.op = "statistics" => response.result = stats
       /\ getStatistics(initializeSeats, 0).result
             = [total |-> 40, available |-> 40, locked |-> 0, booked |-> 0]

\* statistics whose sweep cleared an expired lock, with a seat booked
C21_Witness ==
    /\ response.op = "statistics"
    /\ log # {}
    /\ response.result.booked = 1
    /\ response.result.available = 39

\* alice holds lock 1 on A1, bob took lock 2 on A2, both within their
\* duration, and bob's confirmBooking of A2 with lock id 1 has just returned
\* (A2 is still locked, or this call has booked it)
WrongLeasePresented ==
    /\ issued = 2
    /\ now < LOCK_DURATION
    /\ seats["A1"].status = LOCKED
    /\ seats["A1"].userId = "alice"
    /\ seats["A1"].lockId = 1
    /\ seats["A2"].userId = "bob"
    /\ response.op = "confirm"
    /\ response.seatId = "A2"
    /\ response.userId = "bob"
    /\ response.lockId = seats["A1"].lockId
    /\ \/ seats["A2"].status = LOCKED
       \/ seats["A2"].status = BOOKED /\ response.result.success

C23_StatusCodes ==
    /\ response.op = "lock" =>
          /\ ~response.result.success => response.result.error \in {NotFound, Conflict}
          /\ lockSeatStatus(response.result) =
                IF response.result.success THEN 200
                ELSE IF response.result.error = NotFound THEN 404
                ELSE 409
    /\ response.op = "confirm" =>
          /\ ~response.result.success =>
                response.result.error
                   \in {NotFound, NotLocked, WrongUser, InvalidLock, Expired}
          /\ confirmBookingStatus(response.result) =
                IF response.result.success THEN 201
                ELSE IF response.result.error = NotFound THEN 404
                ELSE IF response.result.error = Expired THEN 410
                ELSE 409
    /\ response.op = "unlock" =>
          /\ ~response.result.success =>
                response.result.error \in {NotFound, NotLocked, CannotUnlock}
          /\ unlockSeatStatus(response.result) =
                IF response.result.success THEN 200
                ELSE IF response.result.error = NotFound THEN 404
                ELSE 403

\* an unlockSeat refused because the seat is not locked, answered with 403
C23_Witness ==
    /\ response.op = "unlock"
    /\ response.result = Failure(NotLocked)
    /\ unlockSeatStatus(response.result) = 403


---------------------------------------------------------------------------
(* Locks left to expire: seats are locked and read, never confirmed,        *)
(* unlocked or reset.  The clock goes on and the interval timer keeps       *)
(* firing whatever the callers do, and a queued continuation always runs.   *)

NextExpire ==
    \/ \E s \in RaceIds, u \in Users :
          InFlight = 0 /\ CallLockSeat(s, u) /\ NoHistory
    \/ ResumeLockSeat /\ NoHistory
    \/ \E s \in RaceIds : GetSeatById(s) /\ NoHistory
    \/ IntervalCleanup /\ NoHistory
    \/ \E d \in ClockSteps : Tick(d) /\ NoHistory

SpecExpire ==
    /\ Init
    /\ [][NextExpire]_vars
    /\ WF_vars(ResumeLockSeat /\ NoHistory)
    /\ SF_vars(IntervalCleanup /\ NoHistory)
    /\ SF_vars(\E d \in ClockSteps : Tick(d) /\ NoHistory)

\* the last clock value of the run
Horizon == LOCK_DURATION + MaxSkew

(* C24: a locked seat that is neither confirmed nor unlocked becomes        *)
(* available once the clock has passed lockExpiresAt, also when no caller   *)
(* does anything more, because the interval sweep keeps running (checked    *)
(* for the locks that expire before the last clock value of the run; the    *)
(* seat is then available, or locked anew by a lockSeat whose own sweep     *)
(* cleared the expired lock); and no step makes a locked seat available, or *)
(* replaces its lock, while now <= lockExpiresAt.                           *)
C24_LocksExpire ==
    /\ \A s \in RaceIds, l \in 1..MaxLocks :
          (/\ seats[s].status = LOCKED
           /\ seats[s].lockId = l
           /\ seats[s].lockExpiresAt < Horizon)
             ~> (\/ seats[s].status = AVAILABLE
                 \/ seats[s].status = LOCKED /\ seats[s].lockId # l)
    /\ [][ \A y \in SeatIds :
             (seats[y].status = LOCKED /\ seats'[y] # seats[y]) =>
                now' > seats[y].lockExpiresAt ]_vars

\* the interval sweep has just cleared an expired lock
C24_Witness ==
    /\ response.op = "none"
    /\ log # {}
    /\ \A s \in log : seats[s].status = AVAILABLE


---------------------------------------------------------------------------
(* Callers that keep calling the three operations on the same seats, up to  *)
(* MaxCalls calls in flight.  A queued continuation always runs, and the 1 ms timer  *)
(* of a waiting acquireMutex fires again and again whatever else is called. *)

\* one user makes all the calls: the mutex does not look at the user
WaitUsers == {"alice"}

NextWait ==
    \/ \E s \in RaceIds, u \in WaitUsers :
          InFlight < MaxWaitCalls /\ CallLockSeat(s, u) /\ NoHistory
    \/ \E s \in RaceIds, u \in WaitUsers, l \in 1..issued :
          InFlight < MaxWaitCalls /\ CallConfirmBooking(s, u, l) /\ NoHistory
    \/ \E s \in RaceIds, u \in WaitUsers, l \in 1..issued :
          InFlight < MaxWaitCalls /\ CallUnlockSeat(s, u, l) /\ NoHistory
    \/ RetryMutex /\ NoHistory
    \/ ResumeLockSeat /\ NoHistory
    \/ ResumeConfirmBooking /\ NoHistory
    \/ ResumeUnlockSeat /\ NoHistory

SpecWait ==
    /\ Init
    /\ [][NextWait]_vars
    /\ WF_vars((ResumeLockSeat \/ ResumeConfirmBooking \/ ResumeUnlockSeat) /\ NoHistory)
    /\ SF_vars(RetryMutex /\ NoHistory)

\* the calls of NextWait
WaitCalls ==
    {[op |-> "lock", seatId |-> s, userId |-> u, lockId |-> NullId] :
        s \in RaceIds, u \in WaitUsers}
      \cup {[op |-> o, seatId |-> s, userId |-> u, lockId |-> l] :
              o \in {"confirm", "unlock"},
              s \in RaceIds, u \in WaitUsers, l \in 1..MaxLocks}

\* call c is in queue q
InQueue(q, c) == \E k \in DOMAIN q : q[k] = c

(***************************************************************************)
(* C25 as stated: every lockSeat, confirmBooking or unlockSeat call that   *)
(* waits for the mutex entry of its seat obtains it, and every call that   *)
(* has obtained it returns a result, also when other callers keep taking   *)
(* entries; and the entries of seatMutex are those of the seats of the     *)
(* calls that have obtained one and not yet returned, one seat per call.   *)
(* A waiting call polls from a timer, which runs only when no continuation *)
(* is pending: while callers keep a continuation pending the waiting call  *)
(* never polls, so the statement is violated.                              *)
(***************************************************************************)
C25_NoCallWaitsForever ==
    /\ \A c \in WaitCalls : InQueue(timers, c) ~> InQueue(microtasks, c)
    /\ \A c \in WaitCalls :
          InQueue(microtasks, c)
             ~> (/\ response.op = c.op
                 /\ response.seatId = c.seatId
                 /\ response.userId = c.userId
                 /\ response.lockId = c.lockId)
    /\ [](seatMutex = {microtasks[k].seatId : k \in DOMAIN microtasks})


(***************************************************************************)
(* The calls that have acquired the mutex entry of seat s and have not yet *)
(* released it: acquireMutex resolved for them and their continuation,     *)
(* which ends in releaseMutex, has not run.                                *)
(***************************************************************************)
Holders(s) == {k \in DOMAIN microtasks : microtasks[k].seatId = s}

(***************************************************************************)
(* C26: at every instant at most one call in flight holds the mutex entry  *)
(* of a given seat id, in every interleaving of lockSeat, confirmBooking,  *)
(* unlockSeat and resetSeats.  resetSeats clears the mutex map without     *)
(* waiting for the holders, so a second call acquires the entry of a seat  *)
(* whose first holder has not released it: the statement is violated.      *)
(***************************************************************************)
C26_OneHolderPerSeat ==
    \A s \in RaceIds : Cardinality(Holders(s)) <= 1


(***************************************************************************)
(* C27: the mutex entry of the seat is released on every exit path of      *)
(* lockSeat, confirmBooking and unlockSeat, whether the call succeeds or   *)
(* fails: the continuation of a call leaves its seat out of the mutex map, *)
(* and whenever no call is in flight the mutex map is empty, so a later    *)
(* call on a seat acquires its entry after a failed one.                   *)
(***************************************************************************)
C27_ReleasedOnEveryExit ==
    /\ [](InFlight = 0 => seatMutex = {})
    /\ [][\A op \in {"lock", "confirm", "unlock"} :
             Resumed(op) => Resuming.seatId \notin seatMutex']_vars

\* a commit has failed as expired and has left no entry in the mutex map
C27_Witness ==
    /\ response.op = "confirm"
    /\ ~response.result.success
    /\ response.result.error = Expired
    /\ InFlight = 0
    /\ seatMutex = {}


---------------------------------------------------------------------------
(* Concurrent calls while the clock advances: lockSeat and confirmBooking   *)
(* calls of one turn of the event loop, the periodic sweep and a read       *)
(* accessor.  One user makes the calls.                                     *)

NextSweep ==
    \/ \E s \in RaceIds, u \in WaitUsers :
          InFlight < MaxCalls /\ CallLockSeat(s, u) /\ NoHistory
    \/ \E s \in RaceIds, u \in WaitUsers, l \in 1..issued :
          InFlight < MaxCalls /\ CallConfirmBooking(s, u, l) /\ NoHistory
    \/ RetryMutex /\ NoHistory
    \/ ResumeLockSeat /\ NoHistory
    \/ ResumeConfirmBooking /\ NoHistory
    \/ GetAllSeats /\ NoHistory
    \/ IntervalCleanup /\ NoHistory
    \/ \E d \in ClockSteps : Tick(d) /\ NoHistory

SpecSweep == Init /\ [][NextSweep]_vars

(***************************************************************************)
(* The holders of the mutex entry of seat y other than the call whose      *)
(* continuation runs in this step.                                         *)
(***************************************************************************)
OtherHolders(y) ==
    IF microtasks # <<>> /\ microtasks' = Tail(microtasks)
    THEN Holders(y) \ {1}
    ELSE Holders(y)

(***************************************************************************)
(* C28: the expiry sweep changes a seat only while it holds the mutex      *)
(* entry of that seat: no step (the periodic sweep, a read accessor, or    *)
(* the continuation of a lockSeat or confirmBooking call on another seat)  *)
(* changes seat y while a different call in flight holds the mutex entry   *)
(* of y.  cleanupExpiredLocks takes no mutex and the continuation of a     *)
(* call sweeps every seat, so the statement is violated.                   *)
(***************************************************************************)
C28_SweepUnderMutex ==
    [][\A y \in DOMAIN seats :
          seats'[y] # seats[y] => OtherHolders(y) = {}]_vars


(***************************************************************************)
(* The seat of the running continuation holds a lock whose time has        *)
(* elapsed and that no sweep has cleared yet / that a sweep has cleared.   *)
(***************************************************************************)
OwnSeatElapsed ==
    /\ microtasks # <<>>
    /\ Resuming.seatId \in DOMAIN seats
    /\ IsExpired(seats[Resuming.seatId], now)

OwnSeatSwept ==
    /\ microtasks # <<>>
    /\ Resuming.seatId \in DOMAIN seats
    /\ seats[Resuming.seatId].status = AVAILABLE

\* lockSeat and confirmBooking decide as on an available seat
AcquireCommitAsAvailable ==
    /\ Resumed("lock") /\ (OwnSeatElapsed \/ OwnSeatSwept)
         => /\ response'.result.success
            /\ seats'[Resuming.seatId].status = LOCKED
            /\ seats'[Resuming.seatId].userId = Resuming.userId
    /\ Resumed("confirm") /\ (OwnSeatElapsed \/ OwnSeatSwept)
         => /\ response'.result = Failure(NotLocked)
            /\ seats'[Resuming.seatId].status = AVAILABLE
            /\ seats'[Resuming.seatId].lockId = NullId

(***************************************************************************)
(* C29 as stated: lockSeat, confirmBooking and unlockSeat each apply the   *)
(* expiry to their own seat before they decide, so on a seat whose lock    *)
(* time has elapsed each decides as on an available seat, whether or not a *)
(* sweep ran earlier.  unlockSeat does not sweep: the holder's unlockSeat  *)
(* on an elapsed lock that no sweep has cleared succeeds, so this          *)
(* statement is violated.                                                  *)
(***************************************************************************)
C29_AllThreeAsAvailable ==
    [][/\ AcquireCommitAsAvailable
       /\ Resumed("unlock") /\ (OwnSeatElapsed \/ OwnSeatSwept)
            => response'.result = Failure(NotLocked)]_vars

(***************************************************************************)
(* C29: lockSeat and confirmBooking apply the expiry to their own seat     *)
(* before they decide: on a seat whose lock time has elapsed lockSeat      *)
(* succeeds and confirmBooking fails as not locked, whether or not a sweep *)
(* ran earlier.  unlockSeat decides on the stored fields: after a sweep it *)
(* fails as not locked, and before any sweep it succeeds for the stored    *)
(* user and lock id (leaving the seat available) and fails as a mismatch   *)
(* for any other.                                                          *)
(***************************************************************************)
C29_LazyExpiration ==
    [][/\ AcquireCommitAsAvailable
       /\ Resumed("unlock") /\ OwnSeatSwept
            => response'.result = Failure(NotLocked)
       /\ Resumed("unlock") /\ OwnSeatElapsed
            => LET seat == seats[Resuming.seatId]
               IN IF seat.userId = Resuming.userId /\ seat.lockId = Resuming.lockId
                  THEN /\ response'.result.success
                       /\ seats'[Resuming.seatId].status = AVAILABLE
                  ELSE /\ response'.result = Failure(CannotUnlock)
                       /\ seats' = seats]_vars

\* the holder's unlockSeat has the mutex of a seat whose lock time has elapsed
C29_Witness ==
    /\ OwnSeatElapsed
    /\ Resuming.op = "unlock"
    /\ seats[Resuming.seatId].userId = Resuming.userId
    /\ seats[Resuming.seatId].lockId = Resuming.lockId


(***************************************************************************)
(* What a sweep at clock value t makes of the seat map before: the seats   *)
(* that are locked with t > lockExpiresAt are available with the user and  *)
(* the lock fields null and the other fields kept, and every other seat is *)
(* as before.                                                              *)
(***************************************************************************)
SweptExactly(before, after, t) ==
    /\ DOMAIN after = DOMAIN before
    /\ \A id \in DOMAIN before :
          IF before[id].status = LOCKED /\ t > before[id].lockExpiresAt
          THEN /\ after[id].status = AVAILABLE
               /\ after[id].userId = Null
               /\ after[id].lockId = NullId
               /\ after[id].lockedAt = NullTime
               /\ after[id].lockExpiresAt = NullTime
               /\ after[id].bookedAt = before[id].bookedAt
               /\ after[id].id = before[id].id
               /\ after[id].row = before[id].row
               /\ after[id].number = before[id].number
          ELSE after[id] = before[id]

(***************************************************************************)
(* C30: cleanupExpiredLocks changes exactly the seats that are locked with *)
(* now > lockExpiresAt and makes them available with the user and lock     *)
(* fields null; it changes nothing when no lock has expired and never      *)
(* changes an available or a booked seat; a second run at the same clock   *)
(* value gives the state of the first.  Stated of every reachable seat map *)
(* and of every step of the periodic sweep.                                *)
(***************************************************************************)
C30_SweepExactAndIdempotent ==
    /\ [](LET once == cleanupExpiredLocks(seats, now)
          IN /\ SweptExactly(seats, once, now)
             /\ cleanupExpiredLocks(once, now) = once
             /\ (\A id \in DOMAIN seats : ~IsExpired(seats[id], now)) => once = seats)
    /\ [][IntervalCleanup => SweptExactly(seats, seats', now)]_vars

\* the periodic sweep has cleared a lock next to a booked seat
C30_Witness ==
    /\ response = NoResponse
    /\ log # {}
    /\ \A id \in log : seats[id].status = AVAILABLE
    /\ \E id \in DOMAIN seats : seats[id].status = BOOKED

=============================================================================
